---------------------------- MODULE Spec2Model ----------------------------
(***************************************************************************)
(* A model of zotero-upload-url's collection selector                      *)
(* (src/src/zotero_upload_url/collection.py and the older script           *)
(* src/zotero_collection.py).                                              *)
(*                                                                         *)
(* The last part models the page saver, src/zotero_saver.py.               *)
(*                                                                         *)
(* Strings are sequences of one-character strings, so that lower(),        *)
(* strip(), split(), int() and the f-strings are computed and not assumed. *)
(* A tree node is a record key/name/parentKey/children; while the tree is  *)
(* being built the children are held as keys into by_key (the dicts of the *)
(* source are shared by reference), the returned forest is the nested      *)
(* value the caller sees.                                                  *)
(***************************************************************************)
EXTENDS Integers, Sequences, FiniteSets, TLC

VARIABLES
    pc,            \* position of the modelled call
    args,          \* print_tree, main, the page saver's main: the arguments
                   \* of the modelled call
    collections,   \* _build_collection_tree: the flat record list (argument)
    by_key,        \* _build_collection_tree: the lookup, in insertion order
    roots,         \* _build_collection_tree: root keys in append order
    tree,          \* _build_collection_tree: the returned forest
    libraries,     \* build_flat_list / interactive_select: the library list
    all_items,     \* build_flat_list: the flattened selectable items
    use_fzf,       \* interactive_select: the fuzzy-mode flag (not --no-fzf)
    fzf,           \* fuzzy_select: what which("fzf") and the subprocess did
    choice,        \* numbered_select: what input() gave
    selected,      \* interactive_select: the selector's result
    stdout,        \* what was printed, in order
    calls,         \* the calls made: current and list requests, create and
                   \* select requests (each with what its POST did),
                   \* numbered_select and interactive_select runs
    ret,           \* how the modelled call ended
    groups,        \* list_collections_native: the group list that was fetched
    fetches        \* list_collections_native: how each group's fetch ended;
                   \* main: how the GET of --current or --list ended

vars == <<pc, args, collections, by_key, roots, tree, libraries, all_items,
          use_fzf, fzf, choice, selected, stdout, calls, ret, groups, fetches>>

treeVars == <<collections, by_key, roots, tree>>
flatVars == <<libraries, all_items>>
selVars == <<use_fzf, fzf, choice, selected, stdout, calls, ret>>
listVars == <<groups, fetches>>

(***************************************************************************)
(* Bounds                                                                  *)
(***************************************************************************)
MaxRecords == 3
MaxLibs == 2
MaxInput == 2
MaxGroups == 3
MaxStart == 3
MaxNodes == 2
MaxSeconds == 2

(***************************************************************************)
(* Characters and strings                                                  *)
(***************************************************************************)
Null == "<None>"

\* str()/f-string literal as a character sequence
Unknown == <<"U", "n", "k", "n", "o", "w", "n">>

\* code point of a character (ord)
Ord(c) ==
    CASE c = "\n" -> 10
      [] c = " " -> 32
      [] c = "(" -> 40
      [] c = ")" -> 41
      [] c = "+" -> 43
      [] c = "-" -> 45
      [] c = "." -> 46
      [] c = "0" -> 48
      [] c = "1" -> 49
      [] c = "2" -> 50
      [] c = "3" -> 51
      [] c = "4" -> 52
      [] c = "5" -> 53
      [] c = "6" -> 54
      [] c = "7" -> 55
      [] c = "8" -> 56
      [] c = "9" -> 57
      [] c = ":" -> 58
      [] c = ">" -> 62
      [] c = "A" -> 65
      [] c = "B" -> 66
      [] c = "L" -> 76
      [] c = "M" -> 77
      [] c = "Q" -> 81
      [] c = "U" -> 85
      [] c = "a" -> 97
      [] c = "b" -> 98
      [] c = "k" -> 107
      [] c = "l" -> 108
      [] c = "m" -> 109
      [] c = "n" -> 110
      [] c = "o" -> 111
      [] c = "q" -> 113
      [] c = "r" -> 114
      [] c = "t" -> 116
      [] c = "u" -> 117
      [] c = "w" -> 119
      [] c = "x" -> 120

\* str.lower() on one character
LowerChar(c) ==
    CASE c = "A" -> "a"
      [] c = "B" -> "b"
      [] c = "L" -> "l"
      [] c = "M" -> "m"
      [] c = "Q" -> "q"
      [] c = "U" -> "u"
      [] OTHER -> c

\* str.lower()
Lower(s) == [i \in 1..Len(s) |-> LowerChar(s[i])]

\* s < t for Python strings: lexicographic by code point
RECURSIVE StrLess(_, _)
StrLess(s, t) ==
    IF t = <<>> THEN FALSE
    ELSE IF s = <<>> THEN TRUE
    ELSE IF Ord(Head(s)) # Ord(Head(t)) THEN Ord(Head(s)) < Ord(Head(t))
    ELSE StrLess(Tail(s), Tail(t))

IsSpace(c) == c \in {" ", "\n", "\t"}

\* str.strip()
RECURSIVE LStrip(_)
LStrip(s) == IF s # <<>> /\ IsSpace(Head(s)) THEN LStrip(Tail(s)) ELSE s

RECURSIVE RStrip(_)
RStrip(s) ==
    IF s # <<>> /\ IsSpace(s[Len(s)]) THEN RStrip(SubSeq(s, 1, Len(s) - 1)) ELSE s

Strip(s) == RStrip(LStrip(s))

\* s.split(sep)[0]
RECURSIVE SplitFirst(_, _)
SplitFirst(s, sep) ==
    IF s = <<>> \/ Head(s) = sep THEN <<>>
    ELSE <<Head(s)>> \o SplitFirst(Tail(s), sep)

Digits == <<"0", "1", "2", "3", "4", "5", "6", "7", "8", "9">>

IsDigit(c) == \E d \in 1..10 : Digits[d] = c

DigitValue(c) == (CHOOSE d \in 1..10 : Digits[d] = c) - 1

\* str(n) of an integer, as the f-strings format it
RECURSIVE FormatNat(_)
FormatNat(n) ==
    IF n < 10 THEN <<Digits[n + 1]>>
    ELSE FormatNat(n \div 10) \o <<Digits[(n % 10) + 1]>>

FormatInt(n) == IF n < 0 THEN <<"-">> \o FormatNat(-n) ELSE FormatNat(n)

\* the digits of int(): left to right, acc * 10 + digit; ok is FALSE where
\* int() raises ValueError
RECURSIVE ParseDigits(_, _)
ParseDigits(s, acc) ==
    IF s = <<>> THEN [ok |-> TRUE, val |-> acc]
    ELSE IF ~IsDigit(Head(s)) THEN [ok |-> FALSE, val |-> 0]
    ELSE ParseDigits(Tail(s), acc * 10 + DigitValue(Head(s)))

\* int(s): surrounding whitespace, an optional sign, at least one digit
ParseInt(s) ==
    LET t == Strip(s)
        signed == t # <<>> /\ Head(t) \in {"+", "-"}
        body == IF signed THEN Tail(t) ELSE t
        p == ParseDigits(body, 0)
    IN  IF body = <<>> \/ ~p.ok THEN [ok |-> FALSE, val |-> 0]
        ELSE [ok |-> TRUE, val |-> IF signed /\ Head(t) = "-" THEN -p.val ELSE p.val]

(***************************************************************************)
(* _build_collection_tree                                                  *)
(***************************************************************************)
AllKeys == <<"A", "B", "C", "D", "E", "F">>

\* keys of the records of one listing response
Keys == {AllKeys[i] : i \in 1..MaxRecords}

\* a record's data.name: absent, or a string
NameChoices ==
    {[has |-> FALSE, val |-> <<>>]}
    \cup {[has |-> TRUE, val |-> v] : v \in {<<>>, <<"a">>, <<"B">>, <<"b">>}}

\* a record's data.parentCollection: false/None, "", a key of the set, a key of no record
ParentChoices == {Null, "", "Z"} \cup Keys

\* a flat record list: pairwise distinct keys, record i carrying key i
\* (the builder only compares keys for equality)
Records(names, parents) ==
    [i \in 1..Len(names) |->
        [key |-> AllKeys[i],
         data |-> [name |-> names[i], parentCollection |-> parents[i]]]]

\* data.get("name", "Unknown")
NameOf(data) == IF data.name.has THEN data.name.val ELSE Unknown

\* data.get("parentCollection") or None
ParentOf(data) ==
    IF data.parentCollection = "" THEN Null ELSE data.parentCollection

NewNode(c) ==
    [key |-> c.key, name |-> NameOf(c.data),
     parentKey |-> ParentOf(c.data), children |-> <<>>]

\* dict assignment d[k] = v on an insertion-ordered dict
DictSet(d, k, v) ==
    [order |-> IF k \in DOMAIN d.node THEN d.order ELSE Append(d.order, k),
     node |-> [x \in DOMAIN d.node \cup {k} |-> IF x = k THEN v ELSE d.node[x]]]

EmptyDict == [order |-> <<>>, node |-> [x \in {} |-> Null]]

\* lines 70-79: the lookup by key
RECURSIVE BuildLookup(_)
BuildLookup(cs) ==
    IF cs = <<>> THEN EmptyDict
    ELSE LET n == Len(cs)
             c == cs[n]
         IN  DictSet(BuildLookup(SubSeq(cs, 1, n - 1)), c.key, NewNode(c))

\* lines 84-88: one turn of the loop over by_key.items()
AttachOneDropOrphan(st, key) ==
    LET parent_key == st.by_key.node[key].parentKey
    IN  IF parent_key # Null /\ parent_key \in DOMAIN st.by_key.node
        THEN [st EXCEPT !.by_key.node[parent_key].children = Append(@, key)]
        ELSE IF parent_key # Null THEN st
        ELSE [st EXCEPT !.roots = Append(@, key)]

AttachOne(st, key) ==
    LET parent_key == st.by_key.node[key].parentKey
    IN  IF parent_key # Null /\ parent_key \in DOMAIN st.by_key.node
        THEN [st EXCEPT !.by_key.node[parent_key].children = Append(@, key)]
        ELSE [st EXCEPT !.roots = Append(@, key)]

\* lines 82-88: the loop, over the first n keys in insertion order
RECURSIVE AttachUpTo(_, _)
AttachUpTo(d, n) ==
    IF n = 0 THEN [by_key |-> d, roots |-> <<>>]
    ELSE AttachOne(AttachUpTo(d, n - 1), d.order[n])

Attach(d) == AttachUpTo(d, Len(d.order))

\* the sort key of line 92
SortKey(node) == Lower(node.name)

\* list.sort(key=...) is stable: x goes after every element whose key is not greater
RECURSIVE InsertSorted(_, _, _)
InsertSorted(sorted, x, heap) ==
    IF sorted = <<>> THEN <<x>>
    ELSE IF StrLess(SortKey(heap[x]), SortKey(heap[Head(sorted)]))
         THEN <<x>> \o sorted
         ELSE <<Head(sorted)>> \o InsertSorted(Tail(sorted), x, heap)

RECURSIVE SortKeys(_, _)
SortKeys(keys, heap) ==
    IF keys = <<>> THEN <<>>
    ELSE LET n == Len(keys)
         IN  InsertSorted(SortKeys(SubSeq(keys, 1, n - 1), heap), keys[n], heap)

\* lines 91-97: sort_children, giving the nested forest reachable from nodes
RECURSIVE sort_children(_, _)
sort_children(keys, heap) ==
    LET sorted == SortKeys(keys, heap)
    IN  [i \in 1..Len(sorted) |->
            LET node == heap[sorted[i]]
            IN  [key |-> node.key, name |-> node.name,
                 parentKey |-> node.parentKey,
                 children |-> IF node.children # <<>>
                              THEN sort_children(node.children, heap)
                              ELSE <<>>]]

\* lines 64-98
build_collection_tree(cs) ==
    LET st == Attach(BuildLookup(cs))
    IN  sort_children(st.roots, st.by_key.node)

(***************************************************************************)
(* Forests                                                                 *)
(***************************************************************************)
\* the nodes of a nested forest in depth-first pre-order, by the definition
\* of pre-order: a node, then the pre-order of its children, then its
\* right siblings
RECURSIVE PreOrder(_)
PreOrder(forest) ==
    IF forest = <<>> THEN <<>>
    ELSE <<Head(forest)>> \o PreOrder(Head(forest).children)
            \o PreOrder(Tail(forest))

KeysOf(nodes) == [i \in 1..Len(nodes) |-> nodes[i].key]

Range(s) == {s[i] : i \in 1..Len(s)}

Count(s, x) == Cardinality({i \in 1..Len(s) : s[i] = x})

(***************************************************************************)
(* The parts of the state a specification leaves alone                     *)
(***************************************************************************)
NoSelection == [type |-> "None"]

NoFzf == [found |-> FALSE, raised |-> FALSE, returncode |-> 0, stdout |-> <<>>]

NoCalls ==
    [current |-> 0, list |-> 0, create |-> <<>>, select |-> <<>>, numbered |-> 0,
     interactive |-> 0]

SelIdle ==
    /\ use_fzf = FALSE
    /\ fzf = NoFzf
    /\ choice = [eof |-> FALSE, line |-> <<>>]
    /\ selected = NoSelection
    /\ stdout = <<>>
    /\ calls = NoCalls
    /\ ret = Null

ListIdle ==
    /\ groups = <<>>
    /\ fetches = <<>>

FlatIdle ==
    /\ libraries = <<>>
    /\ all_items = <<>>

NoArgs == [given |-> FALSE]

ArgsIdle == args = NoArgs

TreeIdle ==
    /\ collections = <<>>
    /\ by_key = EmptyDict
    /\ roots = <<>>
    /\ tree = <<>>

(***************************************************************************)
(* The tree builder as a state machine                                     *)
(***************************************************************************)
InitTree ==
    /\ ArgsIdle
    /\ pc = "build"
    /\ \E n \in 0..MaxRecords :
           \E names \in [1..n -> NameChoices], parents \in [1..n -> ParentChoices] :
               collections = Records(names, parents)
    /\ by_key = EmptyDict
    /\ roots = <<>>
    /\ tree = <<>>
    /\ FlatIdle
    /\ SelIdle
    /\ ListIdle

\* lines 70-79
TreeLookup ==
    /\ pc = "build"
    /\ by_key' = BuildLookup(collections)
    /\ pc' = "attach"
    /\ UNCHANGED <<args, collections, roots, tree, flatVars, selVars, listVars>>

\* lines 82-88
TreeAttach ==
    /\ pc = "attach"
    /\ LET st == Attach(by_key)
       IN  /\ by_key' = st.by_key
           /\ roots' = st.roots
    /\ pc' = "sort"
    /\ UNCHANGED <<args, collections, tree, flatVars, selVars, listVars>>

\* lines 97-98
TreeSort ==
    /\ pc = "sort"
    /\ tree' = sort_children(roots, by_key.node)
    /\ pc' = "built"
    /\ UNCHANGED <<args, collections, by_key, roots, flatVars, selVars, listVars>>

NextTree == TreeLookup \/ TreeAttach \/ TreeSort

SpecTree == InitTree /\ [][NextTree]_vars

(***************************************************************************)
(* Claims about the tree builder (under SpecTree)                          *)
(***************************************************************************)
InputKeys == {collections[i].key : i \in 1..Len(collections)}

\* C1: for every record list with pairwise distinct keys, whatever the parent
\* keys, the returned forest holds exactly one node per input record, each
\* reached exactly once from the roots.
C1_OneNodePerRecord ==
    pc = "built" =>
        \A k \in InputKeys : Count(KeysOf(PreOrder(tree)), k) = 1

Orderings(n) ==
    {p \in [1..n -> 1..n] : \A i, j \in 1..n : p[i] = p[j] => i = j}

Permuted(cs, p) == [i \in 1..Len(cs) |-> cs[p[i]]]

\* C2: every permutation of the same record set builds the identical forest
\* (same root order, same child order at every node).
C2_PermutationInvariant ==
    pc = "built" =>
        \A p \in Orderings(Len(collections)) :
            build_collection_tree(Permuted(collections, p)) = tree

IsOrphan(c) ==
    /\ c.data.parentCollection \notin {Null, ""}
    /\ c.data.parentCollection \notin InputKeys

\* C3: a record whose parent key is non-empty and is no key of the record set
\* is one of the returned roots, once, and is the child of no node.
C3_OrphanPromoted ==
    pc = "built" =>
        \A i \in 1..Len(collections) :
            IsOrphan(collections[i]) =>
                /\ Count(KeysOf(tree), collections[i].key) = 1
                /\ Count(KeysOf(PreOrder(tree)), collections[i].key) = 1
                /\ \A k \in DOMAIN by_key.node :
                       collections[i].key \notin Range(by_key.node[k].children)

\* an orphan was promoted in a forest that also holds an attached child
C3_Witness ==
    /\ pc = "built"
    /\ \E i \in 1..Len(collections) :
           /\ IsOrphan(collections[i])
           /\ collections[i].key \in Range(KeysOf(tree))
    /\ \E i \in 1..Len(tree) : tree[i].children # <<>>

NameMissingOrEmpty(c) == ~c.data.name.has \/ c.data.name.val = <<>>

\* C4: a record whose name is missing or is the empty string gets the
\* placeholder name in its built node.
C4_PlaceholderName ==
    pc = "built" =>
        \A i \in 1..Len(collections) :
            NameMissingOrEmpty(collections[i]) =>
                \A node \in Range(PreOrder(tree)) :
                    node.key = collections[i].key => node.name = Unknown

(***************************************************************************)
(* build_flat_list                                                         *)
(***************************************************************************)
\* "  " * depth
RECURSIVE Indent(_)
Indent(depth) == IF depth = 0 THEN <<>> ELSE <<" ", " ">> \o Indent(depth - 1)

\* lines 254-260: the item of one collection node
CollectionItem(c, lib_id, lib_name, depth) ==
    [type |-> "collection", id |-> lib_id, name |-> c.name, key |-> c.key,
     display |-> lib_name \o <<" ", ">", " ">> \o Indent(depth) \o c.name]

\* lines 266-272: the item of a library root
LibraryItem(lib) ==
    [type |-> "library", id |-> lib.id, name |-> lib.name, key |-> Null,
     display |-> lib.name \o <<" ", "(", "r", "o", "o", "t", ")">>]

\* add_collections without the recursion of lines 261-262
RECURSIVE AddCollectionsNoChildren(_, _, _, _)
AddCollectionsNoChildren(cs, lib_id, lib_name, depth) ==
    IF cs = <<>> THEN <<>>
    ELSE <<CollectionItem(Head(cs), lib_id, lib_name, depth)>>
             \o AddCollectionsNoChildren(Tail(cs), lib_id, lib_name, depth)

\* add_collections descending only after the whole level was appended
RECURSIVE AddCollectionsLevelFirst(_, _, _, _)
AddCollectionsLevelFirst(cs, lib_id, lib_name, depth) ==
    IF cs = <<>> THEN <<>>
    ELSE LET c == Head(cs)
         IN  <<CollectionItem(c, lib_id, lib_name, depth)>>
             \o AddCollectionsLevelFirst(Tail(cs), lib_id, lib_name, depth)
             \o (IF c.children # <<>>
                 THEN AddCollectionsLevelFirst(c.children, lib_id, lib_name, depth + 1)
                 ELSE <<>>)

\* lines 251-262: what add_collections appends to all_items
RECURSIVE add_collections(_, _, _, _)
add_collections(cs, lib_id, lib_name, depth) ==
    IF cs = <<>> THEN <<>>
    ELSE LET c == Head(cs)
         IN  <<CollectionItem(c, lib_id, lib_name, depth)>>
             \o (IF c.children # <<>>
                 THEN add_collections(c.children, lib_id, lib_name, depth + 1)
                 ELSE <<>>)
             \o add_collections(Tail(cs), lib_id, lib_name, depth)

\* lines 264-275: what one turn of the loop over libraries appends
FlatLibrary(lib) ==
    <<LibraryItem(lib)>>
    \o (IF lib.collections # <<>>
        THEN add_collections(lib.collections, lib.id, lib.name, 0)
        ELSE <<>>)

\* lines 247-277
RECURSIVE build_flat_list(_)
build_flat_list(libs) ==
    IF libs = <<>> THEN <<>>
    ELSE LET n == Len(libs)
         IN  build_flat_list(SubSeq(libs, 1, n - 1)) \o FlatLibrary(libs[n])

(***************************************************************************)
(* The flattener as a state machine                                        *)
(***************************************************************************)
\* names of the collections of the listed libraries, by record position
FlatNames == << <<"a">>, <<"B">>, <<"x">>, <<"a", ":">>, <<"B", "x">>, <<"x", "a">> >>

\* the record lists of a listing response whose parents are earlier records:
\* every shape of forest arises from one of them
FlatRecords(parents) ==
    Records([i \in 1..Len(parents) |-> [has |-> TRUE, val |-> FlatNames[i]]],
            parents)

FlatParents(n) ==
    {p \in [1..n -> {Null} \cup Keys] :
        \A i \in 1..n : p[i] = Null \/ \E j \in 1..(i - 1) : p[i] = AllKeys[j]}

FlatForests ==
    UNION {{build_collection_tree(FlatRecords(p)) : p \in FlatParents(n)}
              : n \in 0..MaxRecords}

LibNames == {<<"L">>, <<"M">>}

\* library i of a listing: the personal library first (id 1), then groups
FlatLibraryAt(i, nm, f) ==
    [id |-> i, name |-> nm, type |-> IF i = 1 THEN "user" ELSE "group",
     collections |-> f]

InitFlat ==
    /\ ArgsIdle
    /\ pc = "flatten"
    /\ \E n \in 0..MaxLibs :
           \E nms \in [1..n -> LibNames], fs \in [1..n -> FlatForests] :
               libraries = [i \in 1..n |-> FlatLibraryAt(i, nms[i], fs[i])]
    /\ all_items = <<>>
    /\ TreeIdle
    /\ SelIdle
    /\ ListIdle

\* line 347: all_items = build_flat_list(libraries)
Flatten ==
    /\ pc = "flatten"
    /\ all_items' = build_flat_list(libraries)
    /\ pc' = "flat"
    /\ UNCHANGED <<args, libraries, treeVars, selVars, listVars>>

NextFlat == Flatten

SpecFlat == InitFlat /\ [][NextFlat]_vars

(***************************************************************************)
(* Claims about the flattener (under SpecFlat)                             *)
(***************************************************************************)
\* number of collection nodes of a library's forest
NodeCount(lib) == Len(PreOrder(lib.collections))

\* where library j's segment starts in the flattened sequence (1-based)
RECURSIVE SegStart(_, _)
SegStart(libs, j) ==
    IF j = 1 THEN 1 ELSE SegStart(libs, j - 1) + 1 + NodeCount(libs[j - 1])

\* C5: library by library in the supplied order, a contiguous segment of
\* exactly 1 + (number of collection nodes) items, the first of which is
\* that library's root item (key absent).
C5_SegmentPerLibrary ==
    pc = "flat" =>
        /\ Len(all_items) = SegStart(libraries, Len(libraries) + 1) - 1
        /\ \A j \in 1..Len(libraries) :
               LET s == SegStart(libraries, j)
               IN  /\ all_items[s].type = "library"
                   /\ all_items[s].key = Null
                   /\ all_items[s].id = libraries[j].id
                   /\ all_items[s].name = libraries[j].name
                   /\ \A i \in 1..NodeCount(libraries[j]) :
                          /\ all_items[s + i].type = "collection"
                          /\ all_items[s + i].key # Null

\* two libraries flattened, one of them without collections, one nested
C5_Witness ==
    /\ pc = "flat"
    /\ Len(libraries) = 2
    /\ \E j \in 1..2 : libraries[j].collections = <<>>
    /\ \E j \in 1..2 : NodeCount(libraries[j]) > Len(libraries[j].collections)
    /\ Len(all_items) > 3

\* C6: within library j's segment the item at offset i >= 1 carries the key
\* and the name of the node that pre-order traversal of that library's
\* forest visits at step i, and that library's identifier.
C6_RoundTrip ==
    pc = "flat" =>
        \A j \in 1..Len(libraries) :
            \A i \in 1..NodeCount(libraries[j]) :
                LET item == all_items[SegStart(libraries, j) + i]
                    node == PreOrder(libraries[j].collections)[i]
                IN  /\ item.key = node.key
                    /\ item.name = node.name
                    /\ item.id = libraries[j].id

\* a flattened second library whose forest has a child before a later root
C6_Witness ==
    /\ pc = "flat"
    /\ Len(libraries) = 2
    /\ Len(libraries[2].collections) >= 2
    /\ libraries[2].collections[1].children # <<>>
    /\ libraries[1].collections # <<>>
    /\ all_items[SegStart(libraries, 2) + 2].key
           = libraries[2].collections[1].children[1].key

(***************************************************************************)
(* print_tree, fuzzy_select, numbered_select                               *)
(***************************************************************************)
\* line 237: the printed line; the connector strings are kept as tokens
TreeLine(prefix, is_last, idx, c) ==
    [line |-> "tree", prefix |-> prefix,
     branch |-> IF is_last THEN "last" ELSE "tee",
     text |-> <<"[">> \o FormatInt(idx) \o <<"]", " ">> \o c.name]

\* print_tree numbering the next sibling from idx + 1, as if line 242 did
\* not take the index the recursive call returns
RECURSIVE PrintTreeSiblingNext(_, _, _, _)
PrintTreeSiblingNext(cs, i, prefix, idx) ==
    IF i > Len(cs) THEN [items |-> <<>>, idx |-> idx, lines |-> <<>>]
    ELSE LET c == cs[i]
             is_last == i = Len(cs)
             child_prefix == IF is_last THEN "blank" ELSE "bar"
             sub == IF c.children # <<>>
                    THEN PrintTreeSiblingNext(c.children, 1,
                                              Append(prefix, child_prefix), idx + 1)
                    ELSE [items |-> <<>>, idx |-> idx + 1, lines |-> <<>>]
             rest == PrintTreeSiblingNext(cs, i + 1, prefix, idx + 1)
         IN  [items |-> <<c>> \o sub.items \o rest.items,
              idx |-> rest.idx,
              lines |-> <<TreeLine(prefix, is_last, idx, c)>>
                            \o sub.lines \o rest.lines]

\* lines 231-244: the loop of print_tree from its turn i on
RECURSIVE print_tree_from(_, _, _, _)
print_tree_from(cs, i, prefix, idx) ==
    IF i > Len(cs) THEN [items |-> <<>>, idx |-> idx, lines |-> <<>>]
    ELSE LET c == cs[i]
             is_last == i = Len(cs)
             child_prefix == IF is_last THEN "blank" ELSE "bar"
             sub == IF c.children # <<>>
                    THEN print_tree_from(c.children, 1,
                                         Append(prefix, child_prefix), idx + 1)
                    ELSE [items |-> <<>>, idx |-> idx + 1, lines |-> <<>>]
             rest == print_tree_from(cs, i + 1, prefix, sub.idx)
         IN  [items |-> <<c>> \o sub.items \o rest.items,
              idx |-> rest.idx,
              lines |-> <<TreeLine(prefix, is_last, idx, c)>>
                            \o sub.lines \o rest.lines]

\* lines 223-244
print_tree(cs, prefix, start_idx) == print_tree_from(cs, 1, prefix, start_idx)

\* items[idx] of a Python list: negative indices count from the end
ListIndex(items, idx) ==
    IF 0 <= idx /\ idx < Len(items)
    THEN [raised |-> Null, result |-> items[idx + 1]]
    ELSE IF -Len(items) <= idx /\ idx < 0
    THEN [raised |-> Null, result |-> items[Len(items) + idx + 1]]
    ELSE [raised |-> "IndexError", result |-> NoSelection]

Returns(x) == [raised |-> Null, result |-> x]

Raises(e) == [raised |-> e, result |-> NoSelection]

\* line 287: the record of position i (0-based) handed to fzf
FzfLineFromOne(items, i) == FormatInt(i + 1) \o <<":">> \o items[i + 1].display

FzfLine(items, i) == FormatInt(i) \o <<":">> \o items[i + 1].display

\* lines 290-299: the try block, env being what subprocess.run() did
FuzzyTry(items, env) ==
    IF env.raised THEN Raises("OSError")
    ELSE IF env.returncode = 0 /\ Strip(env.stdout) # <<>>
         THEN LET idx == ParseInt(SplitFirst(Strip(env.stdout), ":"))
              IN  IF ~idx.ok THEN Raises("ValueError") ELSE ListIndex(items, idx.val)
         ELSE Returns(NoSelection)

\* line 300, except Exception: the exceptions the try block can raise that it catches
FuzzyCaughtNoIndexError == {"OSError", "ValueError"}

FuzzyCaught == {"OSError", "ValueError", "IndexError"}

\* lines 280-303, env being what which() and subprocess.run() did
fuzzy_select(items, env) ==
    IF ~env.found THEN Returns(NoSelection)
    ELSE LET t == FuzzyTry(items, env)
         IN  IF t.raised \in FuzzyCaught THEN Returns(NoSelection) ELSE t

\* the listing with the numbering started again at 1 for every library
RECURSIVE NumberedListingPerLibrary(_, _, _)
NumberedListingPerLibrary(libs, j, next_idx) ==
    IF j > Len(libs) THEN [lines |-> <<>>, idx |-> next_idx]
    ELSE LET lib == libs[j]
             root == [line |-> "library",
                      text |-> <<"[">> \o FormatInt(next_idx) \o <<"]", " ">>
                                   \o lib.name]
             sub == IF lib.collections # <<>>
                    THEN print_tree(lib.collections, <<"blank">>, next_idx + 1)
                    ELSE [items |-> <<>>, idx |-> next_idx + 1, lines |-> <<>>]
             rest == NumberedListingPerLibrary(libs, j + 1, 1)
         IN  [lines |-> <<root>> \o sub.lines \o <<[line |-> "blank"]>> \o rest.lines,
              idx |-> rest.idx]

\* lines 310-317: the listing printed by numbered_select from library j on
RECURSIVE NumberedListing(_, _, _)
NumberedListing(libs, j, next_idx) ==
    IF j > Len(libs) THEN [lines |-> <<>>, idx |-> next_idx]
    ELSE LET lib == libs[j]
             root == [line |-> "library",
                      text |-> <<"[">> \o FormatInt(next_idx) \o <<"]", " ">>
                                   \o lib.name]
             sub == IF lib.collections # <<>>
                    THEN print_tree(lib.collections, <<"blank">>, next_idx + 1)
                    ELSE [items |-> <<>>, idx |-> next_idx + 1, lines |-> <<>>]
             rest == NumberedListing(libs, j + 1, sub.idx)
         IN  [lines |-> <<root>> \o sub.lines \o <<[line |-> "blank"]>> \o rest.lines,
              idx |-> rest.idx]

\* lines 320-329: the try block (a position k selects items[k - 1])
NumberedTryNoLowerBound(items, in) ==
    IF in.eof THEN [raised |-> "EOFError", result |-> NoSelection, lines |-> <<>>]
    ELSE LET answer == Strip(in.line)
             n == ParseInt(answer)
         IN  IF Lower(answer) = <<"q">>
             THEN [raised |-> Null, result |-> NoSelection, lines |-> <<>>]
             ELSE IF ~n.ok
             THEN [raised |-> "ValueError", result |-> NoSelection, lines |-> <<>>]
             ELSE IF n.val - 1 >= Len(items)
             THEN [raised |-> Null, result |-> NoSelection,
                   lines |-> <<[line |-> "invalid"]>>]
             ELSE [raised |-> ListIndex(items, n.val - 1).raised,
                   result |-> ListIndex(items, n.val - 1).result, lines |-> <<>>]

NumberedTry(items, in) ==
    IF in.eof THEN [raised |-> "EOFError", result |-> NoSelection, lines |-> <<>>]
    ELSE LET answer == Strip(in.line)
             n == ParseInt(answer)
         IN  IF Lower(answer) = <<"q">>
             THEN [raised |-> Null, result |-> NoSelection, lines |-> <<>>]
             ELSE IF ~n.ok
             THEN [raised |-> "ValueError", result |-> NoSelection, lines |-> <<>>]
             ELSE IF n.val - 1 < 0 \/ n.val - 1 >= Len(items)
             THEN [raised |-> Null, result |-> NoSelection,
                   lines |-> <<[line |-> "invalid"]>>]
             ELSE [raised |-> ListIndex(items, n.val - 1).raised,
                   result |-> ListIndex(items, n.val - 1).result, lines |-> <<>>]

\* line 331: except (ValueError, EOFError)
NumberedCaught == {"ValueError", "EOFError"}

\* lines 306-332
numbered_select(items, libs, in) ==
    LET t == NumberedTry(items, in)
        listing == NumberedListing(libs, 1, 1).lines
    IN  IF t.raised \in NumberedCaught
        THEN [raised |-> Null, result |-> NoSelection, lines |-> listing]
        ELSE [raised |-> t.raised, result |-> t.result, lines |-> listing \o t.lines]

(***************************************************************************)
(* print_tree as a state machine                                           *)
(***************************************************************************)
\* the prefixes print_tree is called with: "" by default, "  " by
\* numbered_select, and a prefix grown by a recursive call
PrintPrefixes == {<<>>, <<"blank">>, <<"bar">>}

\* the start indices: the first ones, and one whose successors have two digits
StartIndices == (1..MaxStart) \cup {9}

InitPrint ==
    /\ pc = "print_tree"
    /\ \E f \in FlatForests, prefix \in PrintPrefixes, s \in StartIndices :
           args = [given |-> TRUE, collections |-> f, prefix |-> prefix,
                   start_idx |-> s]
    /\ TreeIdle
    /\ FlatIdle
    /\ SelIdle
    /\ ListIdle

\* lines 223-244: the lines go to stdout, (all_items, idx) is returned
PrintTree ==
    /\ pc = "print_tree"
    /\ LET r == print_tree(args.collections, args.prefix, args.start_idx)
       IN  /\ stdout' = stdout \o r.lines
           /\ ret' = [all_items |-> r.items, idx |-> r.idx]
    /\ pc' = "printed"
    /\ UNCHANGED <<args, treeVars, flatVars, listVars, use_fzf, fzf, choice, selected, calls>>

NextPrint == PrintTree

SpecPrint == InitPrint /\ [][NextPrint]_vars

(***************************************************************************)
(* build_flat_list and numbered_select on one library list                 *)
(***************************************************************************)
\* the forests of up to MaxNodes collections
NumberedForests ==
    UNION {{build_collection_tree(FlatRecords(p)) : p \in FlatParents(n)}
              : n \in 0..MaxNodes}

\* what the user types: a number shown in the listing, the numbers next to
\* the shown ones, or q
TypedInputs(items) ==
    {[eof |-> FALSE, line |-> FormatInt(n)] : n \in 0..(Len(items) + 1)}
    \cup {[eof |-> FALSE, line |-> <<"q">>]}

InitNumbered ==
    /\ ArgsIdle
    /\ pc = "flatten"
    /\ \E n \in 0..MaxLibs :
           \E fs \in [1..n -> NumberedForests] :
               libraries = [i \in 1..n |->
                               FlatLibraryAt(i, IF i = 1 THEN <<"L">> ELSE <<"M">>, fs[i])]
    /\ all_items = <<>>
    /\ TreeIdle
    /\ SelIdle
    /\ ListIdle

\* line 355 (359): numbered_select(all_items, libraries)
NumberedChoice ==
    /\ pc = "flat"
    /\ \E in \in TypedInputs(all_items) :
           LET r == numbered_select(all_items, libraries, in)
           IN  /\ choice' = in
               /\ selected' = r.result
               /\ stdout' = stdout \o r.lines
               /\ ret' = r.raised
    /\ calls' = [calls EXCEPT !.numbered = @ + 1]
    /\ pc' = "returned"
    /\ UNCHANGED <<args, listVars, treeVars, flatVars, use_fzf, fzf>>

NextNumbered == Flatten \/ NumberedChoice

SpecNumbered == InitNumbered /\ [][NextNumbered]_vars

(***************************************************************************)
(* interactive_select as a state machine                                   *)
(***************************************************************************)
\* the collections of the libraries of the listings offered to the selector
ListingRecords(i) ==
    CASE i = 1 -> Records(<<[has |-> TRUE, val |-> <<"a">>],
                            [has |-> TRUE, val |-> <<"1", ":", "x">>]>>,
                          <<Null, "A">>)
      [] i = 2 -> Records(<<[has |-> TRUE, val |-> <<"B", " ">>]>>, <<Null>>)
      [] OTHER -> <<>>

ListingLibrary(i) ==
    [id |-> i, name |-> IF i = 2 THEN <<"M">> ELSE <<"L">>,
     type |-> IF i = 1 THEN "user" ELSE "group",
     collections |-> build_collection_tree(ListingRecords(i))]

\* what list_collections returns when it returns data: the first n libraries
Listing(n) == [i \in 1..n |-> ListingLibrary(i)]

InputAlphabet == {" ", "q", "Q", "-", "x", "0", "1", "2", "3", "4", "5", "6"}

InputLines == UNION {[1..n -> InputAlphabet] : n \in 0..MaxInput}

\* input(): end of input, or a line
Inputs ==
    {[eof |-> TRUE, line |-> <<>>]} \cup {[eof |-> FALSE, line |-> l] : l \in InputLines}

\* what fzf can write: nothing, a blank line, one of the records it was
\* given, or a line that is none of them
FzfStdouts(items) ==
    {<<>>, <<"\n">>, <<"x", "\n">>, <<":", "1", "\n">>, <<"-", "1", ":", "x", "\n">>,
     FormatInt(Len(items)) \o <<":", "x", "\n">>,
     FormatInt(-Len(items) - 1) \o <<":", "x", "\n">>}
    \cup {FzfLine(items, i) \o <<"\n">> : i \in 0..(Len(items) - 1)}

FzfOutcomes(items) ==
    {NoFzf, [found |-> TRUE, raised |-> TRUE, returncode |-> 0, stdout |-> <<>>]}
    \cup {[found |-> TRUE, raised |-> FALSE, returncode |-> rc, stdout |-> so]
             : rc \in {0, 1, 130}, so \in FzfStdouts(items)}

\* what requests.post() and raise_for_status() of a plugin call do: the
\* plugin answers with JSON that reports success or not, or an exception
PostErrors == {"ConnectionError", "HTTPError", "ReadTimeout"}

PostOutcomes ==
    {[raised |-> Null, success |-> TRUE], [raised |-> Null, success |-> FALSE]}
    \cup {[raised |-> e, success |-> FALSE] : e \in PostErrors}

\* lines 185-190: the except clauses of a plugin call
PluginCaught == {"ConnectionError", "HTTPError"}

\* lines 172-190: None (no data) for a caught exception, r.json() otherwise
select_collection(post) ==
    IF post.raised \in PluginCaught
    THEN [data |-> FALSE, success |-> FALSE, raised |-> Null]
    ELSE [data |-> post.raised = Null, success |-> post.success,
          raised |-> post.raised]

\* the answers of POST /collection/select as select_collection returns them
SelectResults == {select_collection(post) : post \in PostOutcomes}

InitSelect ==
    /\ ArgsIdle
    /\ pc = "interactive_select"
    /\ use_fzf \in BOOLEAN
    /\ fzf = NoFzf
    /\ choice = [eof |-> FALSE, line |-> <<>>]
    /\ selected = NoSelection
    /\ stdout = <<>>
    /\ calls = NoCalls
    /\ ret = Null
    /\ FlatIdle
    /\ TreeIdle
    /\ ListIdle

\* lines 337-339: list_collections gave no data
ListNoData ==
    /\ pc = "interactive_select"
    /\ calls' = [calls EXCEPT !.list = @ + 1]
    /\ ret' = "False"
    /\ pc' = "returned"
    /\ UNCHANGED <<args, listVars, treeVars, flatVars, use_fzf, fzf, choice, selected, stdout>>

\* lines 337-347: list_collections gave data (the list is empty only when
\* it comes from the plugin's /collections/list of src/zotero_collection.py)
Listed ==
    /\ pc = "interactive_select"
    /\ \E n \in 0..MaxLibs :
           /\ libraries' = Listing(n)
           /\ IF n = 0
              THEN /\ stdout' = Append(stdout, [line |-> "no_libraries"])
                   /\ ret' = "False"
                   /\ pc' = "returned"
                   /\ UNCHANGED all_items
              ELSE /\ all_items' = build_flat_list(Listing(n))
                   /\ pc' = IF use_fzf THEN "fuzzy_select" ELSE "numbered_select"
                   /\ UNCHANGED <<stdout, ret>>
    /\ calls' = [calls EXCEPT !.list = @ + 1]
    /\ UNCHANGED <<args, listVars, treeVars, use_fzf, fzf, choice, selected>>

\* lines 351-352
FuzzySelect ==
    /\ pc = "fuzzy_select"
    /\ \E env \in FzfOutcomes(all_items) :
           LET r == fuzzy_select(all_items, env)
           IN  /\ fzf' = env
               /\ selected' = r.result
               /\ ret' = r.raised
               /\ pc' = IF r.raised # Null THEN "returned"
                        ELSE IF r.result = NoSelection THEN "numbered_select"
                        ELSE "select_collection"
    /\ UNCHANGED <<args, listVars, treeVars, flatVars, use_fzf, choice, stdout, calls>>

\* lines 354-359
NumberedSelect ==
    /\ pc = "numbered_select"
    /\ \E in \in Inputs :
           LET r == numbered_select(all_items, libraries, in)
           IN  /\ choice' = in
               /\ selected' = r.result
               /\ stdout' = stdout
                      \o (IF use_fzf THEN <<[line |-> "notice"]>> ELSE <<>>)
                      \o r.lines
               /\ ret' = r.raised
               /\ pc' = IF r.raised # Null THEN "returned" ELSE "select_collection"
    /\ calls' = [calls EXCEPT !.numbered = @ + 1]
    /\ UNCHANGED <<args, listVars, treeVars, flatVars, use_fzf, fzf>>

\* lines 361-362
NothingSelected ==
    /\ pc = "select_collection"
    /\ selected = NoSelection
    /\ ret' = "False"
    /\ pc' = "returned"
    /\ UNCHANGED <<args, listVars, treeVars, flatVars, use_fzf, fzf, choice, selected, stdout, calls>>

\* line 364: the request sent for the selected item, with what its POST did
SelectRequestNoKey(item, post) ==
    [libraryID |-> item.id, collectionKey |-> Null, post |-> post]

SelectRequest(item, post) ==
    [libraryID |-> item.id, collectionKey |-> item.key, post |-> post]

\* lines 364-374
SelectCollection ==
    /\ pc = "select_collection"
    /\ selected # NoSelection
    /\ \E post \in PostOutcomes :
           LET result == select_collection(post)
           IN  /\ calls' = [calls EXCEPT !.select =
                                Append(@, SelectRequest(selected, post))]
               /\ IF result.raised # Null
                  THEN /\ ret' = result.raised
                       /\ UNCHANGED stdout
                  ELSE IF result.data /\ result.success
                  THEN /\ stdout' = Append(stdout, [line |-> "selected",
                                                    text |-> selected.name])
                       /\ ret' = "True"
                  ELSE IF result.data
                  THEN /\ stdout' = Append(stdout, [line |-> "failed"])
                       /\ ret' = "False"
                  ELSE /\ ret' = "AttributeError"
                       /\ UNCHANGED stdout
    /\ pc' = "returned"
    /\ UNCHANGED <<args, listVars, treeVars, flatVars, use_fzf, fzf, choice, selected>>

NextSelect ==
    \/ ListNoData
    \/ Listed
    \/ FuzzySelect
    \/ NumberedSelect
    \/ NothingSelected
    \/ SelectCollection

SpecSelect == InitSelect /\ [][NextSelect]_vars

(***************************************************************************)
(* Claims about the selector (under SpecSelect)                            *)
(***************************************************************************)
\* the text of a line without its surrounding whitespace, by positions
Core(s) ==
    LET inked == {i \in 1..Len(s) : ~IsSpace(s[i])}
    IN  IF inked = {} THEN <<>>
        ELSE SubSeq(s, CHOOSE i \in inked : \A j \in inked : i <= j,
                       CHOOSE i \in inked : \A j \in inked : j <= i)

Unsigned(t) == IF t # <<>> /\ t[1] \in {"+", "-"} THEN SubSeq(t, 2, Len(t)) ELSE t

\* t writes an integer: an optional sign and one or more decimal digits
IsIntegerText(t) ==
    /\ Unsigned(t) # <<>>
    /\ \A i \in 1..Len(Unsigned(t)) : IsDigit(Unsigned(t)[i])

RECURSIVE Pow10(_)
Pow10(n) == IF n = 0 THEN 1 ELSE 10 * Pow10(n - 1)

RECURSIVE PlaceSum(_, _)
PlaceSum(d, i) ==
    IF i > Len(d) THEN 0
    ELSE DigitValue(d[i]) * Pow10(Len(d) - i) + PlaceSum(d, i + 1)

\* the integer t writes, digit by place value
IntegerValue(t) ==
    IF t[1] = "-" THEN -PlaceSum(Unsigned(t), 1) ELSE PlaceSum(Unsigned(t), 1)

NumberedRan == calls.numbered >= 1

\* what the claim says the answer to the prompt selects
ExpectedChoice ==
    LET t == Core(choice.line)
    IN  IF choice.eof THEN NoSelection
        ELSE IF t \in {<<"q">>, <<"Q">>} THEN NoSelection
        ELSE IF IsIntegerText(t) /\ 1 <= IntegerValue(t)
                                 /\ IntegerValue(t) <= Len(all_items)
             THEN all_items[IntegerValue(t)]
        ELSE NoSelection

\* C7: numbered_select on a list of length n: q or Q gives no selection, an
\* integer k with 1 <= k <= n gives the item at position k-1, and 0, a
\* negative integer, an integer above n, any other text and end of input
\* give no selection; no exception reaches the caller.
C7_NumberedSelect ==
    NumberedRan =>
        /\ selected = ExpectedChoice
        /\ calls.numbered = 1
        /\ pc \in {"select_collection", "returned"}
        /\ calls.select = <<>> => ret \in {Null, "False"}

\* the answer 3 to a five-item list selected the item at position 2
C7_Witness ==
    /\ NumberedRan
    /\ Len(all_items) = 5
    /\ choice.line = <<"3">>
    /\ selected = all_items[3]
    /\ selected.key = "B"

FuzzyRan ==
    /\ use_fzf
    /\ all_items # <<>>
    /\ pc \in {"numbered_select", "select_collection", "returned"}

\* the position token of the line fzf wrote
FzfToken == SplitFirst(Core(fzf.stdout), ":")

\* the fuzzy attempt failed: the tool is absent, could not be run, ended
\* with a non-zero status, wrote nothing, or wrote a line whose position
\* token is no integer or no index of the list
FuzzyFailed ==
    \/ ~fzf.found
    \/ fzf.raised
    \/ fzf.returncode # 0
    \/ Core(fzf.stdout) = <<>>
    \/ ~IsIntegerText(FzfToken)
    \/ IntegerValue(FzfToken) >= Len(all_items)
    \/ IntegerValue(FzfToken) < -Len(all_items)

NoticeCount == Cardinality({i \in 1..Len(stdout) : stdout[i].line = "notice"})

\* C8: when fuzzy mode is requested and the fuzzy attempt fails in any way,
\* the fallback notice is printed once, before the numbered listing, the
\* numbered fallback runs exactly once, and no error propagates.
C8_FuzzyFallback ==
    (FuzzyRan /\ FuzzyFailed) =>
        /\ selected = NoSelection \/ NumberedRan
        /\ pc = "numbered_select" =>
               /\ ret = Null
               /\ calls.numbered = 0
        /\ pc # "numbered_select" =>
               /\ calls.numbered = 1
               /\ NoticeCount = 1
               /\ stdout[1].line = "notice"
               /\ stdout[2].line = "library"
               /\ calls.select = <<>> => ret \in {Null, "False"}

\* fzf wrote a line whose position is one past the end of the list, and the
\* numbered fallback then selected an item
C8_Witness ==
    /\ FuzzyRan
    /\ fzf.found /\ ~fzf.raised /\ fzf.returncode = 0
    /\ IsIntegerText(FzfToken)
    /\ IntegerValue(FzfToken) = Len(all_items)
    /\ calls.numbered = 1
    /\ NoticeCount = 1
    /\ selected # NoSelection

\* fzf ended with status 0 and wrote the record it was given for position i
FzfChose(i) ==
    /\ fzf.found /\ ~fzf.raised /\ fzf.returncode = 0
    /\ fzf.stdout \in {FzfLine(all_items, i), FzfLine(all_items, i) \o <<"\n">>}

\* C9: when the fuzzy tool ends with status 0 and writes the record it was
\* given for position i, fuzzy_select returns the item at position i and the
\* numbered fallback is not run.
C9_FuzzyRoundTrip ==
    FuzzyRan =>
        \A i \in 0..(Len(all_items) - 1) :
            FzfChose(i) =>
                /\ selected = all_items[i + 1]
                /\ pc # "numbered_select"
                /\ calls.numbered = 0
                /\ NoticeCount = 0

\* fzf returned the record of a collection whose display string holds a
\* colon and digits, and that collection was selected
C9_Witness ==
    /\ FuzzyRan
    /\ FzfChose(2)
    /\ \E k \in 1..Len(all_items[3].display) : all_items[3].display[k] = ":"
    /\ selected = all_items[3]
    /\ selected.name = <<"1", ":", "x">>
    /\ pc = "select_collection"

\* C11: in interactive mode a collaborator call that yields no data is a
\* reported failure and never an exception: when the listing gave no data
\* interactive_select returns False, and when the select request made after
\* the user's choice ended in a connection failure or an HTTP-level failure
\* interactive_select prints the failure and returns False.
C11_NoDataIsFailure ==
    pc = "returned" =>
        /\ (calls.list = 1 /\ libraries = <<>> /\ stdout = <<>>) => ret = "False"
        /\ \A i \in 1..Len(calls.select) :
               calls.select[i].post.raised \in {"ConnectionError", "HTTPError"} =>
                   /\ ret = "False"
                   /\ stdout # <<>>
                   /\ stdout[Len(stdout)].line = "failed"

\* C15: one interactive invocation makes at most one list request and at
\* most one select request; a select request is made only after the listing
\* returned at least one library and the selector returned an item, and it
\* carries that item's library id and key (no key for a library root); an
\* invocation that returned without a select request returned False.
C15_SelectAtMostOnce ==
    /\ calls.list <= 1
    /\ Len(calls.select) <= 1
    /\ calls.select # <<>> =>
           /\ calls.list = 1
           /\ libraries # <<>>
           /\ selected \in Range(all_items)
           /\ calls.select[1].libraryID = selected.id
           /\ calls.select[1].collectionKey = selected.key
           /\ selected.type = "library" => calls.select[1].collectionKey = Null
    /\ (pc = "returned" /\ calls.select = <<>>) => ret = "False"
    /\ (pc = "returned" /\ (calls.list = 0 \/ libraries = <<>> \/ selected = NoSelection))
           => calls.select = <<>>

\* a collection of the second library was chosen and its select request sent
C15_Witness ==
    /\ pc = "returned"
    /\ Len(calls.select) = 1
    /\ selected.type = "collection"
    /\ selected.id = 2
    /\ calls.select[1].collectionKey = selected.key
    /\ calls.select[1].libraryID = 2

(***************************************************************************)
(* Claims about the tree renderer (under SpecPrint)                        *)
(***************************************************************************)
\* the number a printed line shows between its brackets
Label(line) == IntegerValue(SplitFirst(Tail(line.text), "]"))

\* the name a printed line shows after its label
Shown(line) ==
    LET close == CHOOSE i \in 1..Len(line.text) :
                     /\ line.text[i] = "]"
                     /\ \A j \in 1..(i - 1) : line.text[j] # "]"
    IN  SubSeq(line.text, close + 2, Len(line.text))

\* C16: print_tree with start index s prints one line per node, the k-th
\* line showing the k-th node of the forest's pre-order with the label
\* s + k - 1; it returns the nodes in that pre-order, and as next index
\* s plus the number of nodes of the forest.
C16_PreOrderIndex ==
    pc = "printed" =>
        LET nodes == PreOrder(args.collections)
            s == args.start_idx
        IN  /\ ret.all_items = nodes
            /\ ret.idx = s + Len(nodes)
            /\ Len(stdout) = Len(nodes)
            /\ \A k \in 1..Len(nodes) :
                   /\ stdout[k].text[1] = "["
                   /\ IsIntegerText(SplitFirst(Tail(stdout[k].text), "]"))
                   /\ Label(stdout[k]) = s + k - 1
                   /\ Shown(stdout[k]) = nodes[k].name
                   /\ s = 1 => Label(stdout[k]) = k

\* a root with a child and a second root after it, rendered from 1: the
\* second root is the third line and shows 3
C16_Witness ==
    /\ pc = "printed"
    /\ args.start_idx = 1
    /\ Len(args.collections) = 2
    /\ Len(args.collections[1].children) = 1
    /\ Len(stdout) = 3
    /\ Label(stdout[3]) = 3
    /\ Shown(stdout[3]) = args.collections[2].name

(***************************************************************************)
(* Claims about the numbered listing (under SpecNumbered)                  *)
(***************************************************************************)
IsEntryLine(l) == l.line \in {"library", "tree"}

\* the printed lines that show a number, in print order
Printed == SelectSeq(stdout, IsEntryLine)

\* the library whose root line is the last one printed up to line k
LibraryOfLine(k) ==
    Cardinality({i \in 1..k : Printed[i].line = "library"})

\* the library root or collection that printed line k shows: the root of
\* its library, or the collection of its library with the shown name
EntryOfLine(k) ==
    LET lib == libraries[LibraryOfLine(k)]
    IN  IF Printed[k].line = "library"
        THEN [id |-> lib.id, key |-> Null, name |-> lib.name]
        ELSE LET c == CHOOSE c \in Range(PreOrder(lib.collections)) :
                          c.name = Shown(Printed[k])
             IN  [id |-> lib.id, key |-> c.key, name |-> c.name]

\* C17: in the numbered fallback the numbers printed are 1, 2, ... up to
\* the length of the flattened sequence, the item at position n - 1 of the
\* flattened sequence has the library id and key of the entry printed next
\* to n, and typing a printed number n returns that item.
C17_PrintedNumberSelects ==
    pc = "returned" =>
        /\ Len(Printed) = Len(all_items)
        /\ \A k \in 1..Len(Printed) :
               LET n == Label(Printed[k])
               IN  /\ n = k
                   /\ all_items[n].id = EntryOfLine(k).id
                   /\ all_items[n].key = EntryOfLine(k).key
                   /\ all_items[n].name = EntryOfLine(k).name
                   /\ (IsIntegerText(choice.line) /\ IntegerValue(choice.line) = n) =>
                          /\ ret = Null
                          /\ selected = all_items[n]
                          /\ selected.id = EntryOfLine(k).id
                          /\ selected.key = EntryOfLine(k).key
        /\ Printed # <<>> => Label(Printed[Len(Printed)]) = Len(all_items)

\* the number next to the last collection of the second library was typed,
\* the first library having collections of its own
C17_Witness ==
    /\ pc = "returned"
    /\ Len(libraries) = 2
    /\ libraries[1].collections # <<>>
    /\ selected.type = "collection"
    /\ selected.id = 2
    /\ IntegerValue(choice.line) = Len(all_items)
    /\ Label(Printed[Len(Printed)]) = Len(all_items)
    /\ EntryOfLine(Len(Printed)).key = selected.key

(***************************************************************************)
(* list_collections_native as a state machine                              *)
(***************************************************************************)
\* the exceptions a requests.get(...), raise_for_status() or .json() raises
FetchErrors == {"ConnectionError", "HTTPError", "ReadTimeout"}

\* line 144, except requests.exceptions.RequestException: of FetchErrors
GroupCaughtHTTPErrorOnly == {"HTTPError"}

GroupCaught == {"ConnectionError", "HTTPError", "ReadTimeout"}

\* lines 156-161: the errors after which list_collections_native returns None
ListCaught == {"ConnectionError", "HTTPError"}

\* the flat record lists the collection endpoints answer with
CollectionResponses ==
    {<<>>,
     Records(<<[has |-> TRUE, val |-> <<"a">>], [has |-> TRUE, val |-> <<"B">>]>>,
             <<"B", Null>>)}

\* a group of GET /users/0/groups, with or without data.name
GroupChoices(i) ==
    {[id |-> i + 1, data_name |-> nm] : nm \in {<<>>, <<"M">>}}

\* line 135: data.name, or name, or "Group {id}"
GroupName(group) ==
    IF group.data_name # <<>> THEN group.data_name
    ELSE <<"G", "r", "o", "u", "p", " ">> \o FormatInt(group.id)

\* lines 117-122
PersonalLibrary(personal_collections) ==
    [id |-> 1, name |-> <<"M", "y", " ", "L", "i", "b", "r", "a", "r", "y">>,
     type |-> "user", collections |-> build_collection_tree(personal_collections)]

\* lines 147-152
GroupLibrary(group, group_collections) ==
    [id |-> group.id, name |-> GroupName(group), type |-> "group",
     collections |-> build_collection_tree(group_collections)]

\* lines 156-161: an error leaves the function as None or as itself
ListFails(e) ==
    /\ ret' = IF e \in ListCaught THEN "None" ELSE e
    /\ pc' = "returned"

InitList ==
    /\ ArgsIdle
    /\ pc = "personal"
    /\ libraries = <<>>
    /\ all_items = <<>>
    /\ groups = <<>>
    /\ fetches = <<>>
    /\ TreeIdle
    /\ SelIdle

\* lines 110-122
FetchPersonal ==
    /\ pc = "personal"
    /\ \E personal_collections \in CollectionResponses :
           libraries' = <<PersonalLibrary(personal_collections)>>
    /\ pc' = "groups"
    /\ UNCHANGED <<args, treeVars, all_items, selVars, listVars>>

\* lines 110-115 raising
FetchPersonalFails ==
    /\ pc = "personal"
    /\ \E e \in FetchErrors : ListFails(e)
    /\ UNCHANGED <<args, treeVars, flatVars, listVars, use_fzf, fzf, choice, selected,
                   stdout, calls>>

\* lines 125-130
FetchGroups ==
    /\ pc = "groups"
    /\ \E n \in 0..MaxGroups :
           \E gs \in [1..n -> UNION {GroupChoices(i) : i \in 1..MaxGroups}] :
               /\ \A i \in 1..n : gs[i] \in GroupChoices(i)
               /\ groups' = gs
    /\ pc' = "group_collections"
    /\ UNCHANGED <<args, treeVars, flatVars, selVars, fetches>>

\* lines 125-130 raising
FetchGroupsFails ==
    /\ pc = "groups"
    /\ \E e \in FetchErrors : ListFails(e)
    /\ UNCHANGED <<args, treeVars, flatVars, listVars, use_fzf, fzf, choice, selected,
                   stdout, calls>>

\* lines 133-152: one turn of the loop over groups, its fetch answered
FetchGroupCollections ==
    /\ pc = "group_collections"
    /\ Len(fetches) < Len(groups)
    /\ \E group_collections \in CollectionResponses :
           libraries' = Append(libraries,
                               GroupLibrary(groups[Len(fetches) + 1], group_collections))
    /\ fetches' = Append(fetches, "ok")
    /\ UNCHANGED <<args, pc, treeVars, all_items, selVars, groups>>

\* lines 133-152: one turn of the loop over groups, its fetch raising
FetchGroupCollectionsFails ==
    /\ pc = "group_collections"
    /\ Len(fetches) < Len(groups)
    /\ \E e \in FetchErrors :
           IF e \in GroupCaught
           THEN /\ libraries' = Append(libraries,
                                       GroupLibrary(groups[Len(fetches) + 1], <<>>))
                /\ fetches' = Append(fetches, e)
                /\ UNCHANGED <<pc, ret>>
           ELSE /\ ListFails(e)
                /\ fetches' = Append(fetches, e)
                /\ UNCHANGED libraries
    /\ UNCHANGED <<args, treeVars, all_items, groups, use_fzf, fzf, choice, selected,
                   stdout, calls>>

\* line 154
ReturnListing ==
    /\ pc = "group_collections"
    /\ Len(fetches) = Len(groups)
    /\ ret' = "data"
    /\ pc' = "returned"
    /\ UNCHANGED <<args, treeVars, flatVars, listVars, use_fzf, fzf, choice, selected,
                   stdout, calls>>

NextList ==
    \/ FetchPersonal
    \/ FetchPersonalFails
    \/ FetchGroups
    \/ FetchGroupsFails
    \/ FetchGroupCollections
    \/ FetchGroupCollectionsFails
    \/ ReturnListing

SpecList == InitList /\ [][NextList]_vars

(***************************************************************************)
(* Claims about the listing (under SpecList)                               *)
(***************************************************************************)
FailedFetches == {i \in 1..Len(fetches) : fetches[i] # "ok"}

\* the personal fetch and the group-list fetch succeeded and every group
\* has been asked for its collections
GroupsDone ==
    /\ pc \in {"group_collections", "returned"}
    /\ Len(fetches) = Len(groups)

\* C10 as stated: a listing is returned, the failing group is present with
\* an empty collection list, and three groups with one failing fetch give a
\* 3-library list.
C10_ThreeLibraryList ==
    (GroupsDone /\ pc = "returned" /\ Cardinality(FailedFetches) = 1) =>
        /\ ret = "data"
        /\ \A i \in FailedFetches :
               /\ libraries[i + 1].id = groups[i].id
               /\ libraries[i + 1].collections = <<>>
        /\ Len(groups) = 3 => Len(libraries) = 3

\* C10 as amended: a listing is returned, the failing group is present with
\* an empty collection list, and the list holds the personal library and
\* one library per group: three groups give a 4-library list.
C10_DegradedListing ==
    (GroupsDone /\ pc = "returned" /\ FailedFetches # {}) =>
        /\ ret = "data"
        /\ Len(libraries) = 1 + Len(groups)
        /\ libraries[1].id = 1
        /\ \A i \in 1..Len(groups) :
               /\ libraries[i + 1].id = groups[i].id
               /\ libraries[i + 1].type = "group"
               /\ i \in FailedFetches => libraries[i + 1].collections = <<>>
        /\ Len(groups) = 3 => Len(libraries) = 4

\* three groups, the fetch of the second failed on the connection, the
\* other two have collections
C10_Witness ==
    /\ pc = "returned"
    /\ ret = "data"
    /\ Len(groups) = 3
    /\ fetches = <<"ok", "ConnectionError", "ok">>
    /\ libraries[2].collections # <<>>
    /\ libraries[3].collections = <<>>
    /\ libraries[4].collections # <<>>

(***************************************************************************)
(* main as a state machine                                                 *)
(***************************************************************************)
\* an optional argument that was not given (None)
Absent == [has |-> FALSE, val |-> <<>>]

Given(v) == [has |-> TRUE, val |-> v]

\* if x: of an optional string argument
Truthy(x) == x.has /\ x.val # <<>>

\* lines 394-447: the namespaces parse_args() can give
Arguments ==
    [given : {TRUE}, current : BOOLEAN, list : BOOLEAN, tree : BOOLEAN,
     library : {[has |-> FALSE, val |-> 0], [has |-> TRUE, val |-> 1]},
     select : {Null, "K"},
     create : {Absent, Given(<<>>), Given(<<"n">>)},
     parent : {Null, "P"},
     json : BOOLEAN, no_fzf : BOOLEAN]

\* what requests.get() and raise_for_status() of /collection/current do
GetOutcomes == {[raised |-> Null]} \cup {[raised |-> e] : e \in PostErrors}

\* lines 47-61: None for a caught exception, r.json() otherwise
get_current_collection(get) ==
    IF get.raised \in PluginCaught THEN [data |-> FALSE, raised |-> Null]
    ELSE [data |-> get.raised = Null, raised |-> get.raised]

\* lines 164-169: list_collections (list_collections_native, lines 101-161)
list_collections(fetch) ==
    IF fetch.raised \in ListCaught THEN [data |-> FALSE, raised |-> Null]
    ELSE [data |-> fetch.raised = Null, raised |-> fetch.raised]

\* lines 193-220: the except clauses are those of select_collection
create_collection(post) ==
    IF post.raised \in PluginCaught
    THEN [data |-> FALSE, success |-> FALSE, raised |-> Null]
    ELSE [data |-> post.raised = Null, success |-> post.success,
          raised |-> post.raised]

\* lines 205-207: the payload of the create request
CreateRequest(library_id, name, parent_key, post) ==
    [libraryID |-> library_id, name |-> name,
     parentKey |-> IF parent_key \notin {Null, ""} THEN parent_key ELSE Null,
     post |-> post]

\* main returned code
Exit(code) == [code |-> code, raised |-> Null]

\* main raised e: line 522 is not reached, the interpreter prints the
\* traceback and the process ends with status 1
Raised(e) == [code |-> 1, raised |-> e]

\* return 0 if result and result.get("success") else 1
SuccessCode(result) == IF result.data /\ result.success THEN 0 ELSE 1

InitMain ==
    /\ pc = "main"
    /\ args \in Arguments
    /\ TreeIdle
    /\ FlatIdle
    /\ SelIdle
    /\ ListIdle

\* lines 450-464
MainCurrent ==
    /\ pc = "main"
    /\ args.current
    /\ \E get \in GetOutcomes :
           LET data == get_current_collection(get)
           IN  /\ calls' = [calls EXCEPT !.current = @ + 1]
               /\ fetches' = Append(fetches, IF get.raised = Null THEN "ok" ELSE get.raised)
               /\ stdout' = IF ~data.data THEN stdout
                             ELSE IF args.json THEN Append(stdout, [line |-> "json"])
                             ELSE stdout \o <<[line |-> "current_library"],
                                              [line |-> "current_collection"]>>
               /\ ret' = IF data.raised # Null THEN Raised(data.raised)
                          ELSE IF data.data THEN Exit(0) ELSE Exit(1)
    /\ pc' = "exited"
    /\ UNCHANGED <<args, treeVars, flatVars, groups, use_fzf, fzf, choice, selected>>

\* lines 472-477: the libraries of the listing printed as trees
RECURSIVE TreeListing(_, _)
TreeListing(libs, j) ==
    IF j > Len(libs) THEN <<>>
    ELSE <<[line |-> "library", text |-> libs[j].name]>>
         \o (IF libs[j].collections # <<>>
             THEN print_tree(libs[j].collections, <<"indent">>, 1).lines
             ELSE <<>>)
         \o <<[line |-> "blank"]>>
         \o TreeListing(libs, j + 1)

\* lines 467-478
MainList ==
    /\ pc = "main"
    /\ ~args.current
    /\ args.list
    /\ \E fetch \in GetOutcomes, n \in 1..MaxLibs :
           LET data == list_collections(fetch)
           IN  /\ calls' = [calls EXCEPT !.list = @ + 1]
               /\ fetches' = Append(fetches, IF fetch.raised = Null THEN "ok" ELSE fetch.raised)
               /\ libraries' = IF data.data THEN Listing(n) ELSE libraries
               /\ stdout' = IF ~data.data THEN stdout
                             ELSE IF args.json \/ ~args.tree
                             THEN Append(stdout, [line |-> "json"])
                             ELSE stdout \o TreeListing(Listing(n), 1)
               /\ ret' = IF data.raised # Null THEN Raised(data.raised)
                          ELSE IF data.data THEN Exit(0) ELSE Exit(1)
    /\ pc' = "exited"
    /\ UNCHANGED <<args, treeVars, all_items, groups, use_fzf, fzf, choice, selected>>

\* lines 481-484
MainCreateNoLibrary ==
    /\ pc = "main"
    /\ ~args.current
    /\ ~args.list
    /\ Truthy(args.create)
    /\ ~args.library.has
    /\ stdout' = Append(stdout, [line |-> "library_required"])
    /\ ret' = Exit(1)
    /\ pc' = "exited"
    /\ UNCHANGED <<args, treeVars, flatVars, listVars, use_fzf, fzf, choice, selected, calls>>

\* lines 481, 485-497
MainCreate ==
    /\ pc = "main"
    /\ ~args.current
    /\ ~args.list
    /\ Truthy(args.create)
    /\ args.library.has
    /\ \E post \in PostOutcomes :
           LET result == create_collection(post)
           IN  /\ calls' = [calls EXCEPT !.create =
                                Append(@, CreateRequest(args.library.val, args.create.val,
                                                        args.parent, post))]
               /\ stdout' = IF ~result.data THEN stdout
                             ELSE IF args.json THEN Append(stdout, [line |-> "json"])
                             ELSE IF result.success
                             THEN stdout \o <<[line |-> "created"]>>
                                      \o (IF args.parent \notin {Null, ""}
                                          THEN <<[line |-> "parent"]>> ELSE <<>>)
                             ELSE Append(stdout, [line |-> "error"])
               /\ ret' = IF result.raised # Null THEN Raised(result.raised)
                          ELSE IF result.data /\ ~args.json /\ ~result.success
                          THEN Exit(1)
                          ELSE Exit(SuccessCode(result))
    /\ pc' = "exited"
    /\ UNCHANGED <<args, treeVars, flatVars, listVars, use_fzf, fzf, choice, selected>>

\* lines 500-514
MainSelect ==
    /\ pc = "main"
    /\ ~args.current
    /\ ~args.list
    /\ ~Truthy(args.create)
    /\ args.library.has
    /\ \E post \in PostOutcomes :
           LET result == select_collection(post)
           IN  /\ calls' = [calls EXCEPT !.select =
                                Append(@, SelectRequest([id |-> args.library.val,
                                                         key |-> args.select], post))]
               /\ stdout' = IF ~result.data THEN stdout
                             ELSE IF args.json THEN Append(stdout, [line |-> "json"])
                             ELSE IF result.success
                             THEN Append(stdout, [line |-> "selected"])
                             ELSE Append(stdout, [line |-> "error"])
               /\ ret' = IF result.raised # Null THEN Raised(result.raised)
                          ELSE IF result.data /\ ~args.json /\ ~result.success
                          THEN Exit(1)
                          ELSE Exit(SuccessCode(result))
    /\ pc' = "exited"
    /\ UNCHANGED <<args, treeVars, flatVars, listVars, use_fzf, fzf, choice, selected>>

\* lines 364-374: what interactive_select returns or raises after its
\* select request
InteractiveResult(post) ==
    LET result == select_collection(post)
    IN  IF result.raised # Null THEN result.raised
        ELSE IF result.data /\ result.success THEN "True"
        ELSE IF result.data THEN "False"
        ELSE "AttributeError"

\* the items of a listing of one library
ChosenItems == Range(build_flat_list(Listing(1)))

\* lines 335-374, the runs of interactive_select as SpecSelect has them,
\* kept to what main sees of them: the item chosen, the select request
\* sent for it, and the result
InteractiveRuns ==
    {[selected |-> NoSelection, select |-> <<>>, ret |-> "False"]}
    \cup {[selected |-> item, select |-> <<SelectRequest(item, post)>>,
           ret |-> InteractiveResult(post)]
              : item \in ChosenItems, post \in PostOutcomes}

\* lines 517-518
MainInteractive ==
    /\ pc = "main"
    /\ ~args.current
    /\ ~args.list
    /\ ~Truthy(args.create)
    /\ ~args.library.has
    /\ use_fzf' = ~args.no_fzf
    /\ \E run \in InteractiveRuns :
           /\ calls' = [calls EXCEPT !.interactive = @ + 1, !.list = @ + 1,
                                     !.select = @ \o run.select]
           /\ selected' = run.selected
           /\ ret' = IF run.ret = "True" THEN Exit(0)
                      ELSE IF run.ret = "False" THEN Exit(1)
                      ELSE Raised(run.ret)
    /\ pc' = "exited"
    /\ UNCHANGED <<args, treeVars, flatVars, listVars, fzf, choice, stdout>>

NextMain ==
    \/ MainCurrent
    \/ MainList
    \/ MainCreateNoLibrary
    \/ MainCreate
    \/ MainSelect
    \/ MainInteractive

SpecMain == InitMain /\ [][NextMain]_vars

(***************************************************************************)
(* Claims about main (under SpecMain)                                      *)
(***************************************************************************)
\* the mode the command line asks for, --create NAME asking for create
Mode ==
    IF args.current THEN "current"
    ELSE IF args.list THEN "list"
    ELSE IF args.create.has THEN "create"
    ELSE IF args.library.has THEN "select"
    ELSE "interactive"

\* the collaborator of the mode returned data and, for create and select,
\* its response reports success
Succeeded ==
    CASE Mode = "current" -> fetches = <<"ok">>
      [] Mode = "list" -> fetches = <<"ok">>
      [] Mode = "create" ->
             /\ Len(calls.create) = 1
             /\ calls.create[1].post = [raised |-> Null, success |-> TRUE]
      [] Mode = "select" ->
             /\ Len(calls.select) = 1
             /\ calls.select[1].post = [raised |-> Null, success |-> TRUE]
      [] OTHER -> FALSE

NoCollaboratorCall ==
    /\ calls.current = 0
    /\ calls.list = 0
    /\ calls.create = <<>>
    /\ calls.select = <<>>

\* C12: in the show-current, list, create and direct-select modes the exit
\* code is 0 exactly when the operation succeeded and 1 otherwise, and
\* create without a library id ends with 1 and without a collaborator call.
C12_ExitCodeIffSuccess ==
    (pc = "exited" /\ Mode # "interactive") =>
        /\ ret.code = 0 <=> Succeeded
        /\ ~Succeeded => ret.code = 1
        /\ (Mode = "create" /\ ~args.library.has) =>
               /\ ret = Exit(1)
               /\ NoCollaboratorCall

\* C13: a command line with --select KEY sends one select request that
\* carries KEY and does not run interactive_select.
C13_SelectKeySendsRequest ==
    (pc = "exited" /\ args.select # Null /\ ~args.current /\ ~args.list
         /\ ~args.create.has) =>
        /\ calls.interactive = 0
        /\ calls.list = 0
        /\ Len(calls.select) = 1
        /\ calls.select[1].collectionKey = args.select

(***************************************************************************)
(* The page saver (src/zotero_saver.py): main as a state machine           *)
(***************************************************************************)
\* line 43: the status of a ping that Zotero answers
StatusOk == 200

\* lines 201, 205: the wait when there is no one to press Enter
FallbackSeconds == 5

\* lines 140-173: the namespaces parse_args() can give (url, port and
\* shortcut are passed through to the collaborators)
SaverArguments ==
    [given : {TRUE},
     auto : {[has |-> FALSE, val |-> 0]}
                \cup {[has |-> TRUE, val |-> n] : n \in 0..MaxSeconds},
     no_open : BOOLEAN, skip_check : BOOLEAN]

\* what the ping meets: requests importable or not (lines 24-28), and
\* what requests.get() does
PingOutcomes ==
    {[requests |-> FALSE, raised |-> FALSE, status |-> 0]}
    \cup {[requests |-> TRUE, raised |-> TRUE, status |-> 0]}
    \cup {[requests |-> TRUE, raised |-> FALSE, status |-> st] : st \in {StatusOk, 500}}

\* check_zotero_running that takes a failed ping for a running Zotero
CheckIgnoresErrors(env) ==
    IF ~env.requests THEN TRUE
    ELSE IF env.raised THEN TRUE
    ELSE env.status = StatusOk

\* lines 33-45
check_zotero_running(env) ==
    IF ~env.requests THEN TRUE
    ELSE IF env.raised THEN FALSE
    ELSE env.status = StatusOk

\* lines 48-57: osascript ran, ended with a nonzero return code, or could
\* not be started
AppleScriptOutcomes == {Null, "RuntimeError", "FileNotFoundError"}

\* if args.auto: of the optional integer
TruthyInt(x) == x.has /\ x.val # 0

\* what was done to the outside: ping, open, sleep, input, save
Event(call, raised, value) == [call |-> call, raised |-> raised, value |-> value]

InitSaver ==
    /\ pc = "check"
    /\ args \in SaverArguments
    /\ calls = <<>>
    /\ stdout = <<>>
    /\ ret = Null
    /\ use_fzf = FALSE
    /\ fzf = NoFzf
    /\ choice = [eof |-> FALSE, line |-> <<>>]
    /\ selected = NoSelection
    /\ TreeIdle
    /\ FlatIdle
    /\ ListIdle

\* lines 176-179
SaverCheck ==
    /\ pc = "check"
    /\ IF args.skip_check
       THEN /\ pc' = "open"
            /\ UNCHANGED <<calls, stdout, ret>>
       ELSE \E env \in PingOutcomes :
                /\ calls' = Append(calls, Event("ping", Null, env))
                /\ IF check_zotero_running(env)
                   THEN /\ pc' = "open"
                        /\ UNCHANGED <<stdout, ret>>
                   ELSE /\ stdout' = stdout \o <<[line |-> "not_running"],
                                                  [line |-> "use_skip_check"]>>
                        /\ ret' = Exit(1)
                        /\ pc' = "exited"
    /\ UNCHANGED <<args, treeVars, flatVars, listVars, use_fzf, fzf, choice, selected>>

\* lines 182-188
SaverOpen ==
    /\ pc = "open"
    /\ IF args.no_open
       THEN /\ pc' = "wait"
            /\ UNCHANGED <<calls, stdout, ret>>
       ELSE \E e \in AppleScriptOutcomes :
                /\ calls' = Append(calls, Event("open", e, 0))
                /\ stdout' = stdout \o <<[line |-> "opening"]>>
                                 \o (IF e = "RuntimeError"
                                     THEN <<[line |-> "error_opening"]>> ELSE <<>>)
                /\ ret' = IF e = Null THEN ret
                           ELSE IF e = "RuntimeError" THEN Exit(1) ELSE Raised(e)
                /\ pc' = IF e = Null THEN "wait" ELSE "exited"
    /\ UNCHANGED <<args, treeVars, flatVars, listVars, use_fzf, fzf, choice, selected>>

\* what standard input is: a terminal where Enter is pressed, a terminal
\* at end of input, or not a terminal
StdinOutcomes == {"enter", "eof", "notty"}

\* lines 191-205
SaverWait ==
    /\ pc = "wait"
    /\ IF TruthyInt(args.auto)
       THEN /\ stdout' = Append(stdout, [line |-> "waiting"])
            /\ calls' = Append(calls, Event("sleep", Null, args.auto.val))
       ELSE \E stdin \in StdinOutcomes :
                CASE stdin = "enter" ->
                         /\ calls' = Append(calls, Event("input", Null, 0))
                         /\ UNCHANGED stdout
                  [] stdin = "eof" ->
                         /\ calls' = calls \o <<Event("input", "EOFError", 0),
                                                Event("sleep", Null, FallbackSeconds)>>
                         /\ stdout' = Append(stdout, [line |-> "no_stdin"])
                  [] stdin = "notty" ->
                         /\ calls' = Append(calls, Event("sleep", Null, FallbackSeconds))
                         /\ stdout' = Append(stdout, [line |-> "non_interactive"])
    /\ pc' = "save"
    /\ UNCHANGED <<args, treeVars, flatVars, listVars, use_fzf, fzf, choice, selected, ret>>

\* lines 208-215, and the end of the process (line 219)
SaverTrigger ==
    /\ pc = "save"
    /\ \E e \in AppleScriptOutcomes :
           /\ calls' = Append(calls, Event("save", e, 0))
           /\ stdout' = stdout \o <<[line |-> "triggering"]>>
                            \o (IF e = Null THEN <<[line |-> "done"]>>
                                ELSE IF e = "RuntimeError"
                                THEN <<[line |-> "error_triggering"]>> ELSE <<>>)
           /\ ret' = IF e = Null THEN Exit(0)
                      ELSE IF e = "RuntimeError" THEN Exit(1) ELSE Raised(e)
    /\ pc' = "exited"
    /\ UNCHANGED <<args, treeVars, flatVars, listVars, use_fzf, fzf, choice, selected>>

NextSaver ==
    \/ SaverCheck
    \/ SaverOpen
    \/ SaverWait
    \/ SaverTrigger

SpecSaver == InitSaver /\ [][NextSaver]_vars

(***************************************************************************)
(* Claims about the page saver (under SpecSaver)                           *)
(***************************************************************************)
\* the positions in calls of the events of one kind
EventsOf(call) == {i \in 1..Len(calls) : calls[i].call = call}

\* C14: whenever --auto SECONDS is given, for every SECONDS >= 0, standard
\* input is never read, and the save is triggered after one sleep of
\* SECONDS seconds.
C14_AutoNeverWaitsForEnter ==
    args.auto.has =>
        /\ EventsOf("input") = {}
        /\ \A i \in EventsOf("save") :
               \E j \in 1..(i - 1) :
                   /\ calls[j].call = "sleep"
                   /\ calls[j].value = args.auto.val
                   /\ EventsOf("sleep") = {j}

\* the ping at position j found Zotero running: requests could not be
\* imported, or the answer had status 200
PingPassed(j) ==
    /\ calls[j].call = "ping"
    /\ \/ ~calls[j].value.requests
       \/ ~calls[j].value.raised /\ calls[j].value.status = 200

\* C18: the save shortcut is triggered at most once, and only after the
\* Zotero check passed or was skipped with --skip-check, after the URL was
\* opened without error or --no-open was given, and after the wait step;
\* when the check fails or opening the URL raises, the process has ended
\* with status 1 and no save was triggered.
C18_SaveOnceAfterChecks ==
    /\ Cardinality(EventsOf("save")) <= 1
    /\ \A i \in EventsOf("save") :
           /\ args.skip_check \/ \E j \in 1..(i - 1) : PingPassed(j)
           /\ args.no_open \/
                  \E j \in 1..(i - 1) : calls[j].call = "open" /\ calls[j].raised = Null
           /\ \E j \in 1..(i - 1) :
                  \/ calls[j].call = "sleep"
                  \/ calls[j].call = "input" /\ calls[j].raised = Null
    /\ \A j \in 1..Len(calls) :
           (\/ calls[j].call = "ping" /\ ~PingPassed(j)
            \/ calls[j].call = "open" /\ calls[j].raised # Null) =>
               /\ pc = "exited"
               /\ ret.code = 1
               /\ EventsOf("save") = {}

\* the check passed, the URL was opened, Enter was pressed and the save
\* was triggered
C18_Witness ==
    /\ pc = "exited"
    /\ ret = Exit(0)
    /\ ~args.skip_check
    /\ ~args.no_open
    /\ Len(calls) = 4
    /\ PingPassed(1)
    /\ calls[2].call = "open"
    /\ calls[3].call = "input"
    /\ calls[4].call = "save"

=============================================================================
